---- MODULE Spec2Model ----
(***************************************************************************)
(* The peer-to-peer request/response core of the node:                     *)
(*   - P2PNode.Request / RequestByHash / RequestByNumber (the dispatcher), *)
(*   - P2PNode.requestFromPeer (the single-peer requester),                *)
(*   - QuaiProtocolHandler and its per-type handlers (the inbound side),   *)
(*   - the node facade (GetBlock, GetHeader, GetBlockHashByNumber) and     *)
(*     handleBroadcast,                                                    *)
(*   - P2PNode.Stop (the shutdown).                                        *)
(* The request-ID registry, the response cache, Hash() and the consensus   *)
(* backend are modelled from the specification (sections 4.1, 4.2, 3, 6).  *)
(*                                                                         *)
(* A panic in any goroutine is not recovered anywhere in the sources: it   *)
(* runs the deferred calls of the panicking goroutine and then ends the    *)
(* process.  The variable crashed records that; no action is enabled once  *)
(* it is TRUE.                                                             *)
(***************************************************************************)
EXTENDS Integers, Sequences, FiniteSets, TLC

\* ------------------------------------------------------------------ bounds
MaxRequests == 2      \* Request calls made by the caller in one run
MaxWorkers == 1       \* per-peer tasks spawned in one run
MaxFrames == 2        \* frames a remote peer sends on one inbound stream
MaxTime == 11         \* seconds the clock is followed after Stop is called

\* ------------------------------------------------------- program constants
maxDHTQueryRetries == 3
resultChanCap == 1
stopTimeout == 5      \* time.After(5 * time.Second) in Stop

\* --------------------------------------------------------------- the data
Peers == {"p1", "p2"}
PeerRank == [p \in Peers |-> IF p = "p1" THEN 1 ELSE 2]
Hashes == {"h1", "h2"}
\* Block numbers are opaque to the core: only their identity matters.
Numbers == {"n42"}

\* The closed set of type tags: *types.Block, *types.Header,
\* *types.Transaction and *common.Hash (a block hash asked for by number).
HashTags == {"Block", "Header", "Transaction"}
TypeTags == HashTags \cup {"BlockHash"}

\* A payload is opaque to the core but for its kind and its Hash(); a payload
\* of kind BlockHash is a bare hash value.
Payloads == [kind : TypeTags, hash : Hashes]
NoPayload == [kind |-> "nil", hash |-> "nil"]

\* types.Block.Hash / Header.Hash / Transaction.Hash: the self-describing digest.
Hash(p) == p.hash

\* The legal (selector, typeTag) pairs a caller hands to Request:
\* a hash selects a Block, Header or Transaction; a number selects a BlockHash.
Queries ==
    [kind : {"hash"}, sel : Hashes, tag : HashTags]
        \cup [kind : {"number"}, sel : Numbers, tag : {"BlockHash"}]
NoQuery == [kind |-> "none", sel |-> "none", tag |-> "none"]

\* protocol.ProtocolVersion and some other negotiated protocol identifier.
ProtocolVersion == "quai"
Protocols == {ProtocolVersion, "other"}

\* The request frames a remote peer can send: any request ID, any type tag
\* and either kind of selector, the illegal pairings included.
FrameIDs == {7, 8}
InRequests ==
    [id : FrameIDs, tag : TypeTags, kind : {"hash"}, sel : Hashes]
        \cup [id : FrameIDs, tag : TypeTags, kind : {"number"}, sel : Numbers]
NoRequest == [id |-> 0, tag |-> "none", kind |-> "none", sel |-> "none"]

\* A response frame: the request ID and the payload.
Response(id, p) == [id |-> id, payload |-> p]

FreshStream == [proto |-> "none", closed |-> FALSE, broken |-> FALSE]
NoHandling == [req |-> NoRequest, facade |-> "none", found |-> NoPayload,
               outcome |-> "none", frames |-> 0]

VARIABLES
    nextID,        \* registry: the next request ID Generate returns
    pending,       \* registry: the set of pending request IDs
    cache,         \* response cache: Hash -> payload, NoPayload when absent
    bannedPeers,   \* peers handed to peerManager.BanPeer
    closedConns,   \* peers handed to Host.Network().ClosePeer
    crashed,       \* TRUE once a goroutine has panicked (the process is gone)
    nreq,          \* Request calls made so far
    req,           \* the query of the Request call in flight
    sup,           \* the supervisor goroutine of that call
    resultChan,    \* its result channel: [buf, closed]
    received,      \* the payloads the caller has taken from resultChan
    workers,       \* the per-peer goroutines of that call
    fetched,       \* the queries for which a peer's payload was cached
    spawned,       \* per-peer tasks started so far, over all calls
    forwarded,     \* payloads handed to consensus.OnNewBroadcast
    inStream,      \* the inbound stream: [proto, closed, broken]
    hpc,           \* where QuaiProtocolHandler stands on that stream
    nread,         \* frames read from the inbound stream so far
    cur,           \* the request decoded from the last frame
    written,       \* the response frames written to the inbound stream
    last,          \* how the handling of the last request went
    now,           \* seconds gone by since Stop was called
    stop,          \* P2PNode.Stop: where it stands, i, allErrors, its result
    errs,          \* the error channel of Stop: [buf, closed]
    stopTasks      \* the goroutines of Stop, one per stop function

regVars == <<nextID, pending>>
peerVars == <<bannedPeers, closedConns>>
reqVars == <<nreq, req, sup, resultChan, received, workers, fetched, spawned>>
bcastVars == <<forwarded>>
inVars == <<inStream, hpc, nread, cur, written, last>>
stopVars == <<now, stop, errs, stopTasks>>
vars == <<nextID, pending, cache, bannedPeers, closedConns, crashed,
          nreq, req, sup, resultChan, received, workers, fetched, spawned,
          forwarded, inStream, hpc, nread, cur, written, last,
          now, stop, errs, stopTasks>>

\* ------------------------------------------ request-ID registry (spec 4.1)
GenerateRequestID == nextID
AddRequestID(set, id) == set \cup {id}
RemoveRequestID(set, id) == set \ {id}

\* --------------------------------------------------- response cache (4.2)
\* Get returns the payload iff an entry exists and its kind is the asked tag.
cacheHit(c, hash, tag) == c[hash] # NoPayload /\ c[hash].kind = tag
cacheGet(c, hash, tag) == IF cacheHit(c, hash, tag) THEN c[hash] ELSE NoPayload
\* Put inserts or overwrites.
cacheAdd(c, hash, p) ==
    [h \in DOMAIN c \cup {hash} |-> IF h = hash THEN p ELSE c[h]]

EmptyCache == [h \in Hashes |-> NoPayload]

\* ------------------------------------------------------------ the channel
NewChan == [buf |-> <<>>, closed |-> FALSE]

\* ----------------------------------------------------------- the workers
\* One record per goroutine running requestFromPeer and, once it returned a
\* payload, the rest of the closure that called it.
NewWorker(peer) ==
    [peer |-> peer, pc |-> "open", id |-> 0, stream |-> "none",
     recv |-> NoPayload, result |-> "none", fail |-> "none",
     adds |-> 0, removes |-> 0, banned |-> FALSE, closedPeer |-> FALSE,
     decoded |-> FALSE, decodedBad |-> FALSE, cached |-> FALSE, sent |-> FALSE]

\* The supervisor: where it stands, its loop counter, and what it has done
\* (hit: the cache answered; asked: pubsub was asked for the topic peers;
\* dhtQueries: DHT lookups made; again: an identical call had a payload
\* cached before).
IdleSup == [pc |-> "idle", retries |-> 0, hit |-> FALSE, asked |-> FALSE,
            dhtQueries |-> 0, again |-> FALSE]

\* ------------------------------------------------------------------ Stop
\* stopFuncs: p.Host.Close and p.dht.Close.
stopFuncs == {"host", "dht"}

\* A goroutine of Stop: fn() is running ("closing"), has returned and its
\* result was sent on errs ("done"), or the send panicked.  hangs: fn() never
\* returns; res: what fn() returned; at: when.
IdleTask == [pc |-> "idle", hangs |-> FALSE, res |-> "none", at |-> 0]

\* Stop itself: i is the counter of the collecting loop, waitFrom the time
\* at which the select of the current iteration began, allErrors the errors
\* collected, result what Stop returned and at when.
IdleStop == [pc |-> "idle", i |-> 0, waitFrom |-> 0, allErrors |-> <<>>,
             result |-> "none", at |-> 0]

Init ==
    /\ nextID = 1
    /\ pending = {}
    /\ cache = EmptyCache
    /\ bannedPeers = {}
    /\ closedConns = {}
    /\ crashed = FALSE
    /\ nreq = 0
    /\ req = NoQuery
    /\ sup = IdleSup
    /\ resultChan = NewChan
    /\ received = <<>>
    /\ workers = <<>>
    /\ fetched = {}
    /\ spawned = 0
    /\ forwarded = {}
    /\ inStream = FreshStream
    /\ hpc = "idle"
    /\ nread = 0
    /\ cur = NoRequest
    /\ written = <<>>
    /\ last = NoHandling
    /\ now = 0
    /\ stop = IdleStop
    /\ errs = NewChan
    /\ stopTasks = [f \in stopFuncs |-> IdleTask]


\* ------------------------------------------------------- requestFromPeer
\* The switch on datatype that closes requestFromPeer: the payload kind must
\* be the asked one and, for Block, Header and Transaction, its Hash() must
\* be the asked hash.  A block hash asked for by number is taken as it comes.
ValidResponse_NoHashCheck(tag, sel, p) == p.kind = tag

ValidResponse_NoKindCheck(tag, sel, p) == tag = "BlockHash" \/ Hash(p) = sel

ValidResponse(tag, sel, p) ==
    CASE tag = "Block" -> p.kind = "Block" /\ Hash(p) = sel
      [] tag = "Header" -> p.kind = "Header" /\ Hash(p) = sel
      [] tag = "Transaction" -> p.kind = "Transaction" /\ Hash(p) = sel
      [] tag = "BlockHash" -> p.kind = "BlockHash"
      [] OTHER -> FALSE

\* What the closure around requestFromPeer does with a payload: the ones of
\* RequestByHash cache it and then send it, the ones of RequestByNumber only
\* send it.
AfterReturn_AlwaysCache(q) == "cacheAdd"

AfterReturn(q) == IF q.kind = "hash" THEN "cacheAdd" ELSE "send"

\* requestFromPeer returning without its deferred stream.Close.
Returned_StreamLeftOpen(w, result, fail) ==
    [w EXCEPT !.result = result,
              !.fail = fail,
              !.pc = IF result = "ok" THEN AfterReturn(req) ELSE "done"]

\* requestFromPeer returns (its deferred stream.Close runs); with a payload
\* the calling closure goes on, with an error it ends.
Returned(w, result, fail) ==
    [w EXCEPT !.result = result,
              !.fail = fail,
              !.stream = IF w.stream = "open" THEN "closed" ELSE w.stream,
              !.pc = IF result = "ok" THEN AfterReturn(req) ELSE "done"]

\* requestFromPeer panics: the deferred stream.Close runs, the process ends.
Panicked(w, fail) ==
    [w EXCEPT !.result = "panic", !.fail = fail, !.pc = "panicked",
              !.stream = IF w.stream = "open" THEN "closed" ELSE w.stream]

\* requestFromPeer up to the point where it waits for the answer:
\* p.NewStream, GenerateRequestID, pb.EncodeQuaiRequest,
\* common.WriteMessageToStream and AddRequestID, in this order.  Opening the
\* stream, encoding and writing may each fail, and then the error is returned
\* at once: an ID is generated only once the stream is open and is added to
\* the pending set only once the request is written.
rfpSendRequest(i) ==
    LET w == workers[i] IN
    /\ ~crashed
    /\ w.pc = "open"
    /\ \E out \in {"ok", "open", "encode", "write"} :
          IF out = "open"
          THEN /\ workers' = [workers EXCEPT ![i] = Returned(w, "err", "open")]
               /\ UNCHANGED <<nextID, pending>>
          ELSE LET g == [w EXCEPT !.stream = "open", !.id = GenerateRequestID] IN
               /\ nextID' = nextID + 1
               /\ IF out = "ok"
                  THEN /\ pending' = AddRequestID(pending, g.id)
                       /\ workers' = [workers EXCEPT ![i] =
                             [g EXCEPT !.adds = w.adds + 1, !.pc = "read"]]
                  ELSE /\ workers' = [workers EXCEPT ![i] = Returned(g, "err", out)]
                       /\ UNCHANGED pending
    /\ UNCHANGED <<cache, peerVars, crashed, nreq, req, sup,
                   resultChan, received, fetched, spawned, bcastVars, inVars, stopVars>>

\* common.ReadMessageFromStream, pb.DecodeQuaiResponse, the check of the
\* received request ID, RemoveRequestID and the validation switch: all that
\* requestFromPeer does once the peer's answer is there.  The peer decides
\* what arrives: nothing (read error or timeout), bytes that do not decode,
\* or a response carrying any request ID and any payload.
\*   - read or decode error: return the error;
\*   - another request ID: panic("TODO: implement");
\*   - else the ID leaves the pending set; a valid payload is returned and
\*     anything else leads to p.BanPeer(peerID).
\* decodedBad records whether the decoded payload had the wrong kind for the
\* type tag or, for a request by hash, the wrong hash.
WrongPayload(q, p) == p.kind # q.tag \/ (q.kind = "hash" /\ Hash(p) # q.sel)

rfpReadResponse(i) ==
    LET w == workers[i] IN
    /\ ~crashed
    /\ w.pc = "read"
    /\ \/ /\ \E out \in {"read", "decode"} :
                workers' = [workers EXCEPT ![i] = Returned(w, "err", out)]
          /\ UNCHANGED <<pending, crashed>>
       \/ \E recvdID \in {w.id, 0}, p \in Payloads :
             LET d == [w EXCEPT !.decoded = TRUE,
                                !.decodedBad = WrongPayload(req, p)] IN
             IF recvdID # w.id
             THEN /\ workers' = [workers EXCEPT ![i] = Panicked(d, "idmismatch")]
                  /\ crashed' = TRUE
                  /\ UNCHANGED pending
             ELSE /\ pending' = RemoveRequestID(pending, w.id)
                  /\ workers' = [workers EXCEPT ![i] =
                        IF ValidResponse(req.tag, req.sel, p)
                        THEN Returned([d EXCEPT !.removes = w.removes + 1,
                                                !.recv = p], "ok", "none")
                        ELSE [d EXCEPT !.removes = w.removes + 1, !.pc = "ban"]]
                  /\ UNCHANGED crashed
    /\ UNCHANGED <<nextID, cache, peerVars, nreq, req, sup,
                   resultChan, received, fetched, spawned, bcastVars, inVars, stopVars>>

\* P2PNode.BanPeer: p.peerManager.BanPeer(peer), then
\* p.Host.Network().ClosePeer(peer); requestFromPeer then returns
\* errors.New("invalid response").
BanPeer(i) ==
    LET w == workers[i] IN
    /\ ~crashed
    /\ w.pc = "ban"
    /\ bannedPeers' = bannedPeers \cup {w.peer}
    /\ closedConns' = closedConns \cup {w.peer}
    /\ workers' = [workers EXCEPT ![i] =
          Returned([w EXCEPT !.banned = TRUE, !.closedPeer = TRUE],
                   "err", "invalid")]
    /\ UNCHANGED <<regVars, cache, crashed, nreq, req, sup,
                   resultChan, received, fetched, spawned, bcastVars, inVars, stopVars>>

\* --------------------------------------------- the per-peer closures
\* p.cacheAdd(hash, recvd) in the closures of RequestByHash
rbhCacheAdd(i) ==
    LET w == workers[i] IN
    /\ ~crashed
    /\ w.pc = "cacheAdd"
    /\ cache' = cacheAdd(cache, req.sel, w.recv)
    /\ workers' = [workers EXCEPT ![i] =
                      [w EXCEPT !.cached = TRUE, !.pc = "send"]]
    /\ fetched' = fetched \cup {req}
    /\ UNCHANGED <<regVars, peerVars, crashed, nreq, req, sup,
                   resultChan, received, spawned, bcastVars, inVars, stopVars>>

\* resultChan <- recvd: blocks while the buffer is full, panics once the
\* channel is closed (also when it is closed while the send is blocked).
SendResult(i) ==
    LET w == workers[i] IN
    /\ ~crashed
    /\ w.pc = "send"
    /\ IF resultChan.closed
       THEN /\ crashed' = TRUE
            /\ workers' = [workers EXCEPT ![i] =
                              [w EXCEPT !.pc = "panicked", !.fail = "sendOnClosed"]]
            /\ UNCHANGED resultChan
       ELSE /\ Len(resultChan.buf) < resultChanCap
            /\ resultChan' = [resultChan EXCEPT !.buf = Append(@, w.recv)]
            /\ workers' = [workers EXCEPT ![i] =
                              [w EXCEPT !.sent = TRUE, !.pc = "done",
                                        !.recv = NoPayload]]
            /\ UNCHANGED crashed
    /\ UNCHANGED <<regVars, cache, peerVars, nreq, req, sup,
                   received, fetched, spawned, bcastVars, inVars, stopVars>>

\* The caller of Request takes a payload from the channel.
Receive ==
    /\ ~crashed
    /\ Len(resultChan.buf) > 0
    /\ received' = Append(received, Head(resultChan.buf))
    /\ resultChan' = [resultChan EXCEPT !.buf = Tail(@)]
    /\ UNCHANGED <<regVars, cache, peerVars, crashed, nreq, req, sup,
                   workers, fetched, spawned, bcastVars, inVars, stopVars>>

\* ------------------------------------------------------- the supervisor
WorkersAtRest == \A i \in DOMAIN workers : workers[i].pc = "done"

\* The goroutines one range loop starts, one per peer of the sequence ps.
Spawn(ps) == [k \in 1..Len(ps) |-> NewWorker(ps[k])]

\* Sequences of at most n peers.
PeerSeqs(n) == UNION {[1..k -> Peers] : k \in 0..n}

\* A peer list as pubsub hands it out: no peer twice (the order in which
\* the goroutines are started does not matter; one order stands for all).
PeerLists(n) ==
    {ps \in PeerSeqs(n) : \A a, b \in DOMAIN ps : a < b => PeerRank[ps[a]] < PeerRank[ps[b]]}

Budget == MaxWorkers - spawned

\* The deferred close(resultChan) of the supervisor.
Closed(ch) == [ch EXCEPT !.closed = TRUE]

\* P2PNode.Request: a hash goes to RequestByHash, a number to
\* RequestByNumber; either makes the channel and starts the supervisor.
Request(q) ==
    /\ ~crashed
    /\ nreq < MaxRequests
    /\ sup.pc \in {"idle", "done"}
    /\ WorkersAtRest
    /\ nreq' = nreq + 1
    /\ req' = q
    /\ sup' = [IdleSup EXCEPT !.pc = IF q.kind = "hash" THEN "cacheGet"
                                                        ELSE "peers",
                              !.again = (q \in fetched)]
    /\ resultChan' = NewChan
    /\ received' = <<>>
    /\ workers' = <<>>
    /\ UNCHANGED <<regVars, cache, peerVars, crashed, fetched, spawned,
                   bcastVars, inVars, stopVars>>

\* RequestByHash, step 1: p.cacheGet(hash, datatype); on a hit the entry is
\* asserted to be a *types.Block and sent, and the supervisor returns.  The
\* assertion res.(*types.Block) panics on an entry of any other kind; the
\* deferred close runs first.
rbhCacheGet ==
    /\ ~crashed
    /\ sup.pc = "cacheGet"
    /\ IF cacheHit(cache, req.sel, req.tag)
       THEN LET res == cacheGet(cache, req.sel, req.tag) IN
            IF res.kind = "Block"
            THEN /\ resultChan' = Closed([resultChan EXCEPT !.buf = Append(@, res)])
                 /\ sup' = [sup EXCEPT !.pc = "done", !.hit = TRUE]
                 /\ UNCHANGED crashed
            ELSE /\ resultChan' = Closed(resultChan)
                 /\ sup' = [sup EXCEPT !.pc = "panicked", !.hit = TRUE]
                 /\ crashed' = TRUE
       ELSE /\ sup' = [sup EXCEPT !.pc = "peers"]
            /\ UNCHANGED <<resultChan, crashed>>
    /\ UNCHANGED <<regVars, cache, peerVars, nreq, req, received, workers,
                   fetched, spawned, bcastVars, inVars, stopVars>>

\* p.pubsub.PeersForTopic(location, datatype) and the fan-out over the
\* topic peers; on an error the supervisor returns.
PeersForTopic ==
    /\ ~crashed
    /\ sup.pc = "peers"
    /\ \/ /\ sup' = [sup EXCEPT !.pc = "done", !.asked = TRUE]
          /\ resultChan' = Closed(resultChan)
          /\ UNCHANGED <<workers, spawned>>
       \/ /\ \E ps \in PeerLists(Budget) :
                /\ workers' = workers \o Spawn(ps)
                /\ spawned' = spawned + Len(ps)
          /\ sup' = [sup EXCEPT !.pc = "dht", !.asked = TRUE]
          /\ UNCHANGED resultChan
    /\ UNCHANGED <<regVars, cache, peerVars, crashed, nreq, req, received,
                   fetched, bcastVars, inVars, stopVars>>

\* One round of the DHT loop: range over p.dht.FindProvidersAsync and start
\* a goroutine per provider.  The closure reads the loop variable peer when
\* it runs, so which provider of the round a goroutine asks is not fixed.
FindProviders ==
    /\ ~crashed
    /\ sup.pc = "dht"
    /\ sup.retries < maxDHTQueryRetries
    /\ \E ps \in PeerSeqs(Budget) :
          /\ workers' = workers \o Spawn(ps)
          /\ spawned' = spawned + Len(ps)
    /\ sup' = [sup EXCEPT !.pc = "sleep", !.dhtQueries = @ + 1]
    /\ UNCHANGED <<regVars, cache, peerVars, crashed, nreq, req, resultChan,
                   received, fetched, bcastVars, inVars, stopVars>>

\* time.Sleep(dhtQueryRetryInterval) and retries++; after the last round the
\* supervisor returns and its deferred close(resultChan) runs.
RetrySleep ==
    /\ ~crashed
    /\ sup.pc = "sleep"
    /\ IF sup.retries + 1 < maxDHTQueryRetries
       THEN /\ sup' = [sup EXCEPT !.pc = "dht", !.retries = @ + 1]
            /\ UNCHANGED resultChan
       ELSE /\ sup' = [sup EXCEPT !.pc = "done", !.retries = @ + 1]
            /\ resultChan' = Closed(resultChan)
    /\ UNCHANGED <<regVars, cache, peerVars, crashed, nreq, req, received,
                   workers, fetched, spawned, bcastVars, inVars, stopVars>>

\* ------------------------------------------------------ handleBroadcast
\* handleBroadcast with the block cached under a hash that is not its own.
handleBroadcast_KeyedByOther(data) ==
    /\ ~crashed
    /\ IF data.kind = "Block"
       THEN /\ cache' = cacheAdd(cache, CHOOSE h \in Hashes : h # Hash(data), data)
            /\ forwarded' = forwarded \cup {data}
       ELSE UNCHANGED <<cache, forwarded>>
    /\ UNCHANGED <<regVars, peerVars, crashed, reqVars, inVars, stopVars>>

\* handleBroadcast without the switch on the kind of the payload.
handleBroadcast_AnyKind(data) ==
    /\ ~crashed
    /\ cache' = cacheAdd(cache, Hash(data), data)
    /\ forwarded' = forwarded \cup {data}
    /\ UNCHANGED <<regVars, peerVars, crashed, reqVars, inVars, stopVars>>

\* A Block is cached under its own hash and handed to the consensus
\* backend; a payload of any other kind is dropped.
handleBroadcast(data) ==
    /\ ~crashed
    /\ IF data.kind = "Block"
       THEN /\ cache' = cacheAdd(cache, Hash(data), data)
            /\ forwarded' = forwarded \cup {data}
       ELSE UNCHANGED <<cache, forwarded>>
    /\ UNCHANGED <<regVars, peerVars, crashed, reqVars, inVars, stopVars>>

\* -------------------------------------------------- the node facade
\* P2PNode.GetBlock: the cached block if the cache has one, else what
\* consensus.LookupBlock returns (lookup; NoPayload stands for nil).
GetBlock(c, hash, lookup) ==
    IF cacheHit(c, hash, "Block") THEN cacheGet(c, hash, "Block") ELSE lookup

\* What the consensus backend may answer to LookupBlock(hash, location).
LookupBlock(hash) == {NoPayload, [kind |-> "Block", hash |-> hash]}

\* What the consensus backend may answer to LookupHeader(hash, location).
LookupHeader(hash) == {NoPayload, [kind |-> "Header", hash |-> hash]}

\* ---------------------------------------------- QuaiProtocolHandler
outVars == <<regVars, peerVars, reqVars>>

\* The host hands the handler a new inbound stream.
AcceptStream(proto) ==
    /\ ~crashed
    /\ hpc = "idle"
    /\ inStream' = [inStream EXCEPT !.proto = proto]
    /\ hpc' = "check"
    /\ UNCHANGED <<outVars, stopVars, cache, crashed, bcastVars, nread, cur, written, last>>

\* The handler entering the read loop whatever the protocol of the stream.
ProtocolCheck_AnyProtocol ==
    /\ ~crashed
    /\ hpc = "check"
    /\ hpc' = "read"
    /\ UNCHANGED inStream
    /\ UNCHANGED <<outVars, stopVars, cache, crashed, bcastVars, nread, cur, written, last>>

\* if stream.Protocol() != ProtocolVersion: log and return; the deferred
\* stream.Close runs.
ProtocolCheck ==
    /\ ~crashed
    /\ hpc = "check"
    /\ IF inStream.proto # ProtocolVersion
       THEN /\ inStream' = [inStream EXCEPT !.closed = TRUE]
            /\ hpc' = "exited"
       ELSE /\ hpc' = "read"
            /\ UNCHANGED inStream
    /\ UNCHANGED <<outVars, stopVars, cache, crashed, bcastVars, nread, cur, written, last>>

\* The head of the read loop: common.ReadMessageFromStream and
\* pb.DecodeQuaiRequest.
\*   - io.EOF: break, and the handler returns (deferred stream.Close);
\*   - any other read error: logged, see LogAndContinue.  The error may have
\*     consumed a frame, or the stream may be broken for good (reset), and
\*     then every later read fails the same way without consuming anything;
\*   - a frame that does not decode: logged, see LogAndContinue;
\*   - a request: go on to the dispatch.
ReadFrame ==
    /\ ~crashed
    /\ hpc = "read"
    /\ IF inStream.broken
       THEN /\ hpc' = "readErr"
            /\ UNCHANGED <<inStream, nread, cur>>
       ELSE \/ /\ inStream' = [inStream EXCEPT !.closed = TRUE]
               /\ hpc' = "exited"
               /\ UNCHANGED <<nread, cur>>
            \/ /\ inStream' = [inStream EXCEPT !.broken = TRUE]
               /\ hpc' = "readErr"
               /\ UNCHANGED <<nread, cur>>
            \/ /\ nread < MaxFrames
               /\ nread' = nread + 1
               /\ \/ hpc' = "readErr" /\ UNCHANGED cur
                  \/ \E r \in InRequests : cur' = r /\ hpc' = "dispatch"
               /\ UNCHANGED inStream
    /\ UNCHANGED <<outVars, stopVars, cache, crashed, bcastVars, written, last>>

\* log.Global.Errorf(...) and continue, after a read error other than
\* io.EOF and after a frame that does not decode: back to the head of the
\* loop, whatever the error was.
LogAndContinue ==
    /\ ~crashed
    /\ hpc = "readErr"
    /\ hpc' = "read"
    /\ UNCHANGED <<outVars, stopVars, cache, crashed, bcastVars, inStream,
                   nread, cur, written, last>>

\* A panic inside the handler: the deferred stream.Close runs and the
\* process ends.
HandlerPanics(facade, found) ==
    /\ inStream' = [inStream EXCEPT !.closed = TRUE]
    /\ hpc' = "panicked"
    /\ crashed' = TRUE
    /\ last' = [req |-> cur, facade |-> facade, found |-> found,
                outcome |-> "panic", frames |-> 0]
    /\ UNCHANGED <<cur, written>>

\* The handler function returned (nil or an error, which is only logged):
\* back to the head of the loop.
HandlerReturns(facade, found, outcome, resp) ==
    /\ written' = written \o resp
    /\ last' = [req |-> cur, facade |-> facade, found |-> found,
                outcome |-> outcome, frames |-> Len(resp)]
    /\ hpc' = "read"
    /\ cur' = NoRequest
    /\ UNCHANGED <<inStream, crashed>>

\* handleBlockRequest: node.GetBlock; a nil block is only logged and
\* block.Hash() is then called on it (a nil dereference); else
\* pb.EncodeQuaiResponse(id, block) and common.WriteMessageToStream, either
\* of which may fail.
handleBlockRequest(id, hash) ==
    \E lookup \in LookupBlock(hash) :
        LET block == GetBlock(cache, hash, lookup) IN
        IF block = NoPayload
        THEN HandlerPanics("GetBlock", block)
        ELSE \E out \in {"written", "encodeErr", "writeErr"} :
                HandlerReturns("GetBlock", block, out,
                    IF out = "written" THEN <<Response(id, block)>> ELSE <<>>)

\* handleHeaderRequest: node.GetHeader, which is panic("TODO: implement")
\* in P2PNode; nothing after the call is reached.
handleHeaderRequest(id, hash) == HandlerPanics("GetHeader", NoPayload)

\* handleTransactionRequest: panic("TODO: implement").
handleTransactionRequest(id, hash) == HandlerPanics("none", NoPayload)

\* The switch on decodedType.
\*   - *types.Block, *types.Header, *types.Transaction: query.(common.Hash),
\*     which panics on a number, then the handler of the type;
\*   - a block hash: the case reads common.Hash and asserts query.(big.Int),
\*     which panics on a hash and on a *big.Int alike; if the codec hands
\*     out a *common.Hash the case does not match and the default branch
\*     logs and continues.  Both are allowed here.
Dispatch ==
    /\ ~crashed
    /\ hpc = "dispatch"
    /\ CASE cur.tag \in HashTags /\ cur.kind # "hash" ->
                HandlerPanics("none", NoPayload)
         [] cur.tag = "Block" /\ cur.kind = "hash" ->
                handleBlockRequest(cur.id, cur.sel)
         [] cur.tag = "Header" /\ cur.kind = "hash" ->
                handleHeaderRequest(cur.id, cur.sel)
         [] cur.tag = "Transaction" /\ cur.kind = "hash" ->
                handleTransactionRequest(cur.id, cur.sel)
         [] OTHER ->
                \/ HandlerPanics("none", NoPayload)
                \/ HandlerReturns("none", NoPayload, "unsupported", <<>>)
    /\ UNCHANGED <<outVars, stopVars, cache, bcastVars, nread>>

\* ------------------------------------------------------------ P2PNode.Stop
stopRest == <<regVars, peerVars, reqVars, cache, bcastVars, inVars>>

\* errs := make(chan error, len(stopFuncs)) and one goroutine per stop
\* function.  Whether a close returns at all is up to the host and the DHT.
StopCall ==
    /\ ~crashed
    /\ stop.pc = "idle"
    /\ \E hung \in SUBSET stopFuncs :
          stopTasks' = [f \in stopFuncs |->
                           [IdleTask EXCEPT !.pc = "closing", !.hangs = (f \in hung)]]
    /\ errs' = NewChan
    /\ stop' = [IdleStop EXCEPT !.pc = "select", !.waitFrom = now]
    /\ UNCHANGED <<stopRest, crashed, now>>

\* errs <- fn(): fn() returns nil or an error and the goroutine sends it.
\* The channel has room for every stop function, so the send never blocks;
\* on a closed channel it panics.
StopTaskSend(f) ==
    /\ ~crashed
    /\ stopTasks[f].pc = "closing"
    /\ ~stopTasks[f].hangs
    /\ \E res \in {"nil", "closeErr"} :
          IF errs.closed
          THEN /\ crashed' = TRUE
               /\ stopTasks' = [stopTasks EXCEPT ![f] =
                     [@ EXCEPT !.pc = "panicked", !.res = res, !.at = now]]
               /\ UNCHANGED errs
          ELSE /\ errs' = [errs EXCEPT !.buf = Append(@, res)]
               /\ stopTasks' = [stopTasks EXCEPT ![f] =
                     [@ EXCEPT !.pc = "done", !.res = res, !.at = now]]
               /\ UNCHANGED crashed
    /\ UNCHANGED <<stopRest, now, stop>>

\* The end of one iteration of the collecting loop: i++ and either the next
\* select, with a new time.After, or the end of the loop.
NextIteration(s, collected) ==
    [s EXCEPT !.i = s.i + 1,
              !.allErrors = s.allErrors \o collected,
              !.waitFrom = now,
              !.pc = IF s.i + 1 < Cardinality(stopFuncs) THEN "select" ELSE "close"]

\* case err := <-errs: a non-nil error is appended to allErrors.
StopSelectRecv ==
    /\ ~crashed
    /\ stop.pc = "select"
    /\ Len(errs.buf) > 0
    /\ stop' = NextIteration(stop, IF Head(errs.buf) = "nil" THEN <<>>
                                                           ELSE <<Head(errs.buf)>>)
    /\ errs' = [errs EXCEPT !.buf = Tail(@)]
    /\ UNCHANGED <<stopRest, crashed, now, stopTasks>>

\* case <-time.After(5 * time.Second): the timer of this iteration, started
\* when its select began, has run out.
StopSelectTimeout ==
    /\ ~crashed
    /\ stop.pc = "select"
    /\ now >= stop.waitFrom + stopTimeout
    /\ stop' = NextIteration(stop, <<"timeout">>)
    /\ UNCHANGED <<stopRest, crashed, now, errs, stopTasks>>

\* close(errs) and the return of the aggregate.
StopReturn ==
    /\ ~crashed
    /\ stop.pc = "close"
    /\ errs' = Closed(errs)
    /\ stop' = [stop EXCEPT !.pc = "returned", !.at = now,
                            !.result = IF Len(stop.allErrors) > 0 THEN "error"
                                                                 ELSE "nil"]
    /\ UNCHANGED <<stopRest, crashed, now, stopTasks>>

\* One second goes by.  Stop does not linger: while one of the cases of its
\* select is ready, or the loop is over, it runs before the clock moves.
Tick ==
    /\ ~crashed
    /\ stop.pc # "idle"
    /\ now < MaxTime
    /\ stop.pc # "close"
    /\ stop.pc = "select" =>
          Len(errs.buf) = 0 /\ now < stop.waitFrom + stopTimeout
    /\ now' = now + 1
    /\ UNCHANGED <<stopRest, crashed, stop, errs, stopTasks>>

\* --------------------------------------------------- the specification
Next ==
    \/ \E q \in Queries : Request(q)
    \/ rbhCacheGet
    \/ PeersForTopic
    \/ FindProviders
    \/ RetrySleep
    \/ \E i \in DOMAIN workers : rfpSendRequest(i)
    \/ \E i \in DOMAIN workers : rfpReadResponse(i)
    \/ \E i \in DOMAIN workers : BanPeer(i)
    \/ \E i \in DOMAIN workers : rbhCacheAdd(i)
    \/ \E i \in DOMAIN workers : SendResult(i)
    \/ Receive
    \/ \E data \in Payloads : handleBroadcast(data)

Spec == Init /\ [][Next]_vars


\* The inbound side alone: one stream served by QuaiProtocolHandler, with
\* broadcasts filling the cache meanwhile.
NextInbound ==
    \/ \E proto \in Protocols : AcceptStream(proto)
    \/ ProtocolCheck
    \/ ReadFrame
    \/ LogAndContinue
    \/ Dispatch
    \/ \E data \in Payloads : handleBroadcast(data)

SpecInbound == Init /\ [][NextInbound]_vars

\* The same with the handler goroutine scheduled fairly: whichever step of
\* the handler can be taken is taken in the end.  (Nothing is asked of the
\* host accepting a stream or of the broadcasts.)
SpecInboundFair ==
    /\ SpecInbound
    /\ WF_vars(ProtocolCheck)
    /\ WF_vars(ReadFrame)
    /\ WF_vars(LogAndContinue)
    /\ WF_vars(Dispatch)


\* The streams of the node: one inbound stream served by
\* QuaiProtocolHandler while Request has its per-peer tasks open streams to
\* the topic peers, up to the return of requestFromPeer.
NextStreams ==
    \/ \E proto \in Protocols : AcceptStream(proto)
    \/ ProtocolCheck
    \/ ReadFrame
    \/ LogAndContinue
    \/ Dispatch
    \/ \E q \in Queries : Request(q)
    \/ rbhCacheGet
    \/ PeersForTopic
    \/ \E i \in DOMAIN workers : rfpSendRequest(i)
    \/ \E i \in DOMAIN workers : rfpReadResponse(i)
    \/ \E i \in DOMAIN workers : BanPeer(i)

SpecStreams == Init /\ [][NextStreams]_vars


\* The shutdown alone.
NextStop ==
    \/ StopCall
    \/ \E f \in stopFuncs : StopTaskSend(f)
    \/ StopSelectRecv
    \/ StopSelectTimeout
    \/ StopReturn
    \/ Tick

SpecStop == Init /\ [][NextStop]_vars


\* ================================================================ claims
\* What has been put on the result channel so far, in order.
Delivered == received \o resultChan.buf

\* The payload a request by hash asks for.
Asked == [kind |-> req.tag, hash |-> req.sel]

\* C1: every request ID that requestFromPeer obtained from the registry is
\* added to the pending set exactly once and removed from it exactly once,
\* however the call ends, so the ID of a finished call is never pending.
C1_PendingBalanced ==
    \A i \in DOMAIN workers :
        LET w == workers[i] IN
        (w.id # 0 /\ w.result # "none") =>
            w.adds = 1 /\ w.removes = 1 /\ w.id \notin pending

\* C2: when the response carries another request ID than the one sent,
\* requestFromPeer returns an error, the peer is banned, the sent ID is no
\* longer pending and the node keeps running.
C2_WrongIDRejected ==
    \A i \in DOMAIN workers :
        LET w == workers[i] IN
        w.fail = "idmismatch" =>
            /\ w.result = "err"
            /\ w.peer \in bannedPeers
            /\ w.id \notin pending
            /\ ~crashed

\* C3: a payload that requestFromPeer returns without error for a request
\* by hash has the kind of the requested type tag and hashes to the
\* requested hash.
C3_AcceptedMatchesRequest ==
    \A i \in DOMAIN workers :
        LET w == workers[i] IN
        (req.kind = "hash" /\ w.result = "ok" /\ w.recv # NoPayload) =>
            w.recv.kind = req.tag /\ Hash(w.recv) = req.sel

C3_Witness ==
    \E i \in DOMAIN workers :
        /\ req.kind = "hash"
        /\ workers[i].result = "ok"
        /\ workers[i].recv = Asked

\* C4: requestFromPeer bans the peer (peerManager.BanPeer and ClosePeer) and
\* returns an error exactly when a response was received and decoded and its
\* payload failed the validation (wrong kind for the type tag, or wrong hash
\* on a request by hash); when opening the stream, encoding, writing,
\* reading or decoding fails it returns an error and bans nobody.
C4_BanExactlyOnInvalid ==
    \A i \in DOMAIN workers :
        LET w == workers[i] IN
        /\ w.banned =>
              /\ w.decoded /\ w.decodedBad
              /\ w.result = "err"
              /\ w.closedPeer
              /\ w.peer \in bannedPeers \cap closedConns
        /\ w.result \in {"ok", "err"} =>
              (w.banned <=> (w.decoded /\ w.decodedBad))
        /\ w.result = "ok" => w.decoded /\ ~w.decodedBad
        /\ w.fail \in {"open", "encode", "write", "read", "decode"} =>
              w.result = "err" /\ ~w.banned /\ ~w.closedPeer

C4_Witness ==
    \E i \in DOMAIN workers :
        /\ workers[i].result = "err"
        /\ workers[i].decodedBad
        /\ workers[i].banned
        /\ workers[i].peer \in bannedPeers \cap closedConns

\* C5: for every well-formed Block or Header request the inbound handler
\* reads, it writes exactly one response frame with the request's ID on the
\* stream: the entity when the facade has it, an explicit not-found response
\* (a frame without payload) when the facade returns nil.  A failure of the
\* encoder or of the stream write is not held against the handler.
C5_OneResponsePerRequest ==
    (/\ last.req.tag \in {"Block", "Header"}
     /\ last.req.kind = "hash"
     /\ last.outcome \notin {"encodeErr", "writeErr"}) =>
        /\ last.outcome = "written"
        /\ last.frames = 1
        /\ Len(written) > 0
        /\ written[Len(written)] = Response(last.req.id, last.found)

\* C6: for any type tag, when the cache has the asked entry a Request by
\* hash delivers exactly that payload, closes the channel, and has asked
\* neither pubsub nor the DHT nor opened a stream.
C6_CacheHitServes ==
    sup.hit =>
        /\ ~crashed
        /\ sup.pc = "done"
        /\ resultChan.closed
        /\ Delivered = <<Asked>>
        /\ ~sup.asked
        /\ sup.dhtQueries = 0
        /\ workers = <<>>

\* C7: in a Request by hash a payload obtained from a peer is cached under
\* the requested hash before it is sent on the result channel, so that a
\* later identical Request is served from the cache: it delivers the payload
\* and opens no stream.
C7_CachedThenServedFromCache ==
    /\ \A i \in DOMAIN workers :
          LET w == workers[i] IN
          (req.kind = "hash" /\ (w.pc = "send" \/ w.sent)) =>
              w.cached /\ req \in fetched
    /\ (sup.again /\ sup.pc # "cacheGet") =>
          /\ sup.hit
          /\ ~crashed
          /\ Asked \in {Delivered[k] : k \in DOMAIN Delivered}
          /\ workers = <<>>

\* C8: a Request by number neither reads nor writes the cache: no step of
\* its supervisor or of its per-peer tasks changes the cache, and the
\* supervisor never takes the cache path.
C8_ByNumberLeavesCache ==
    [][req.kind = "number" =>
          /\ ~sup.hit
          /\ sup.pc # "cacheGet"
          /\ (<<outVars, crashed>>' # <<outVars, crashed>> => cache' = cache)]_vars

C8_Witness ==
    /\ req.kind = "number"
    /\ Len(received) > 0
    /\ \A t \in TypeTags : ~cacheHit(cache, Hash(received[1]), t)

\* C9: every cache entry is stored under the Hash() of the stored payload,
\* so whatever cacheGet(h, t) returns hashes to h and has kind t.
C9_CacheKeyedByHash ==
    \A h \in DOMAIN cache :
        /\ cache[h] # NoPayload => Hash(cache[h]) = h
        /\ \A t \in TypeTags :
              cacheHit(cache, h, t) =>
                  Hash(cacheGet(cache, h, t)) = h /\ cacheGet(cache, h, t).kind = t

C9_Witness ==
    /\ \E i \in DOMAIN workers : workers[i].cached
    /\ forwarded # {}
    /\ \A h \in Hashes : cache[h] # NoPayload

\* C10: the result channel of every Request is closed in the end, after at
\* most maxDHTQueryRetries DHT rounds: once nothing of the call can run any
\* more the channel is closed; and with no topic peer and no provider in any
\* round it is closed with nothing delivered and nothing raised.
C10_ChannelClosedInTheEnd ==
    req.kind # "none" =>
        /\ sup.dhtQueries <= maxDHTQueryRetries
        /\ (crashed \/ sup.pc \in {"done", "panicked"}) => resultChan.closed
        /\ (sup.pc = "done" /\ ~sup.hit /\ workers = <<>>) =>
              Delivered = <<>> /\ ~crashed

\* The elements of a sequence.
Range(seq) == {seq[k] : k \in DOMAIN seq}

\* C11: Stop keeps one ceiling of stopTimeout seconds for both closes: when
\* the DHT close hangs and the host close completes within the ceiling, Stop
\* returns an error that records a timeout no later than stopTimeout seconds
\* after it was called; and Stop returns nil only when both closes returned
\* nil within the ceiling.
C11_StopWithinCeiling ==
    stop.pc = "returned" =>
        /\ (/\ stopTasks["dht"].hangs
            /\ stopTasks["host"].pc = "done"
            /\ stopTasks["host"].at <= stopTimeout) =>
               /\ stop.result = "error"
               /\ "timeout" \in Range(stop.allErrors)
               /\ stop.at <= stopTimeout
        /\ stop.result = "nil" =>
               \A f \in stopFuncs :
                   /\ stopTasks[f].pc = "done"
                   /\ stopTasks[f].res = "nil"
                   /\ stopTasks[f].at <= stopTimeout

\* The (typeTag, selector) pairs outside the table of legal pairs.
IllegalPair(r) ==
    \/ r.tag \in HashTags /\ r.kind = "number"
    \/ r.tag = "BlockHash" /\ r.kind = "hash"

\* C12: a decoded frame whose (typeTag, selector) pair is illegal is only
\* logged: no facade lookup is made, no response is written, and the handler
\* goes back to reading the stream, which stays open.
C12_IllegalPairSkipped ==
    IllegalPair(last.req) =>
        /\ last.outcome = "unsupported"
        /\ last.facade = "none"
        /\ last.frames = 0
        /\ ~crashed
        /\ hpc # "panicked"

\* C13: a request with the tag BlockHash and a number is answered through
\* GetBlockHashByNumber: one response frame with the request's ID, carrying
\* the hash or nothing when the facade returned nil.
C13_BlockHashByNumberAnswered ==
    (/\ last.req.tag = "BlockHash"
     /\ last.req.kind = "number"
     /\ last.outcome \notin {"encodeErr", "writeErr"}) =>
        /\ last.facade = "GetBlockHashByNumber"
        /\ last.outcome = "written"
        /\ last.frames = 1
        /\ Len(written) > 0
        /\ written[Len(written)] = Response(last.req.id, last.found)

\* C14: a failure while one inbound stream is served stays on that stream:
\* whatever went wrong with the last request (a panic in the handler, an
\* encode or write error, an unsupported request), the node is still
\* running, so an outbound Request can be started and a broadcast is still
\* taken in.
C14_FailureStaysOnItsStream ==
    last.outcome \in {"panic", "encodeErr", "writeErr", "unsupported"} =>
        /\ ~crashed
        /\ ENABLED (\E q \in Queries : Request(q))
        /\ ENABLED (\E data \in Payloads : handleBroadcast(data))

\* What a facade lookup by hash is to return: the cached entry of the kind
\* when there is one, else one of the answers of the consensus backend.
CacheThenBackend(c, hash, tag, answers) ==
    IF cacheHit(c, hash, tag) THEN {cacheGet(c, hash, tag)} ELSE answers

\* C15: the facade lookups made for a request return the cached entry of
\* the matching kind when the cache has one and else the answer of the
\* consensus backend (LookupBlock for GetBlock, LookupHeader for GetHeader),
\* nil included.
C15_FacadeLookupOrder ==
    [][(hpc = "dispatch" /\ hpc' # hpc /\ cur.kind = "hash") =>
          /\ cur.tag = "Block" =>
                /\ last'.facade = "GetBlock"
                /\ last'.found \in
                      CacheThenBackend(cache, cur.sel, "Block", LookupBlock(cur.sel))
          /\ cur.tag = "Header" =>
                /\ last'.facade = "GetHeader"
                /\ last'.outcome # "panic"
                /\ last'.found \in
                      CacheThenBackend(cache, cur.sel, "Header", LookupHeader(cur.sel))]_vars

C17_StreamClosedOnEveryExit ==
    /\ hpc \in {"exited", "panicked"} => inStream.closed
    /\ \A i \in DOMAIN workers :
          LET w == workers[i] IN
          w.result # "none" =>
              IF w.fail = "open" THEN w.stream = "none" ELSE w.stream = "closed"

C17_Witness ==
    /\ hpc = "panicked"
    /\ inStream.closed
    /\ \E i \in DOMAIN workers :
          workers[i].result = "ok" /\ workers[i].stream = "closed"

\* C18: an inbound stream whose protocol is not ProtocolVersion is closed
\* by the handler without a read from it, without a facade call and without
\* a response being written.
C18_WrongProtocolClosedUnread ==
    (inStream.proto \notin {"none", ProtocolVersion}) =>
        /\ hpc \in {"check", "exited"}
        /\ hpc = "exited" => inStream.closed
        /\ ~inStream.broken
        /\ nread = 0
        /\ cur = NoRequest
        /\ last = NoHandling
        /\ written = <<>>

C18_Witness ==
    /\ inStream.proto = "other"
    /\ hpc = "exited"
    /\ inStream.closed

\* C19: the read loop of the handler comes to an end: from the head of the
\* loop the handler in the end returns (or dies), also on a stream whose
\* reads keep failing without progress.
C19_ReadLoopTerminates ==
    [](hpc = "read" => <>(hpc \in {"exited", "panicked"}))

\* C20: no per-peer task of a Request sends on the result channel once the
\* supervisor has closed it, and none is blocked in its send when the
\* channel is closed: a send on the closed channel does not happen.
C20_NoSendOnClosedChannel ==
    \A i \in DOMAIN workers :
        /\ workers[i].fail # "sendOnClosed"
        /\ (resultChan.closed /\ Len(resultChan.buf) = resultChanCap) =>
              workers[i].pc # "send"

\* C21: no goroutine of Stop sends its result on errs once Stop has closed
\* the channel: the send errs <- fn() on the closed channel does not happen,
\* also when a close returns only after its timeout was recorded.
C21_NoSendOnClosedErrs ==
    \A f \in stopFuncs :
        ~(stopTasks[f].pc = "panicked" /\ errs.closed)

====
